---- MODULE Spec2Model ----
(***************************************************************************)
(* Phase rules and status manager of kubernetes-phase-rules.               *)
(*                                                                         *)
(*   rules/phase_rule.go        ConditionEquals, ConditionsAll/Any,        *)
(*                              NewPhaseRule, Satisfies, ComputePhase      *)
(*   conditions/conditions.go   StatusManager.SetCondition/SetConditions   *)
(*                                                                         *)
(* Spec      : one StatusManager driven by SetCondition and SetConditions  *)
(*             calls, with a status client whose Patch may fail.           *)
(* SpecRules : Satisfies / ComputePhase applied to bounded rules and       *)
(*             bounded condition lists.                                    *)
(***************************************************************************)
EXTENDS Integers, Sequences, FiniteSets, TLC

VARIABLES
    phaseRules,          \* StatusManager.phaseRules (fixed at construction)
    generation,          \* object.GetGeneration()
    conditions,          \* *StatusManager.conditions, the in-memory list
    phase,               \* object.GetPhase()
    observedGeneration,  \* the value last given to SetObservedGeneration
    persisted,           \* the status held by the API server
    now,                 \* the clock read by metav1.Now()
    call,                \* what the latest call did
    ret,                 \* the error returned by the last call
    satisfied,           \* the value returned by the last Satisfies call
    calls,               \* number of calls made so far
    built                \* the arguments each rule of phaseRules was built from

vars == <<phaseRules, generation, conditions, phase, observedGeneration,
          persisted, now, call, ret, satisfied, calls, built>>

----------------------------------------------------------------------------
(* Bounds *)

MaxNow == 1        \* the clock runs over 0..MaxNow
MaxBatch == 3      \* longest batch given to SetConditions
MaxCalls == 2      \* calls made on one StatusManager
MaxLen == 2        \* longest condition list given to Satisfies directly
MaxChildren == 2   \* most ConditionEquals children of one rule

----------------------------------------------------------------------------
(* Values *)

PhaseUnknown == "Unknown"

ConditionTrue == "True"
ConditionFalse == "False"
ConditionUnknown == "Unknown"

Statuses == {ConditionTrue, ConditionFalse, ConditionUnknown}
Types == {"A", "B"}

Min(S) == CHOOSE x \in S : \A y \in S : x <= y

Max(S) == CHOOSE x \in S : \A y \in S : y <= x

\* slices.Contains
Contains(s, x) == \E i \in 1..Len(s) : s[i] = x

\* sequences over S of length at most n
SeqUpTo(S, n) == UNION {[1..k -> S] : k \in 0..n}

----------------------------------------------------------------------------
(* rules/phase_rule.go *)

\* ConditionEquals whose matchers all report the status of the last round
\* of the loop
ConditionEqualsLastCaptured(condition, statuses) ==
    [i \in 1..Len(statuses) |->
        [condition |-> condition, status |-> statuses[Len(statuses)]]]

\* ConditionEquals(condition, statuses...): one matcher per status
RECURSIVE ConditionEqualsFrom(_, _, _)
ConditionEqualsFrom(condition, statuses, i) ==
    IF i > Len(statuses) THEN <<>>
    ELSE <<[condition |-> condition, status |-> statuses[i]]>>
         \o ConditionEqualsFrom(condition, statuses, i + 1)

ConditionEquals(condition, statuses) ==
    ConditionEqualsFrom(condition, statuses, 1)

\* conditions(all, matcherLists...): the matcher lists appended in order
RECURSIVE Flatten(_, _)
Flatten(matcherLists, i) ==
    IF i > Len(matcherLists) THEN <<>>
    ELSE matcherLists[i] \o Flatten(matcherLists, i + 1)

ConditionsOf(all, matcherLists) ==
    [matchers |-> Flatten(matcherLists, 1), all |-> all]

ConditionsAll(matcherLists) == ConditionsOf(TRUE, matcherLists)

ConditionsAny(matcherLists) == ConditionsOf(FALSE, matcherLists)

\* the loop of NewPhaseRule: conditionToStatusMap[condition] gets status
\* appended, for each matcher in order
RECURSIVE ConditionToStatusMap(_, _, _)
ConditionToStatusMap(matchers, i, m) ==
    IF i > Len(matchers) THEN m
    ELSE LET c == matchers[i].condition
             s == matchers[i].status
             old == IF c \in DOMAIN m THEN m[c] ELSE <<>>
         IN ConditionToStatusMap(matchers, i + 1,
                [t \in (DOMAIN m) \cup {c} |->
                    IF t = c THEN Append(old, s) ELSE m[t]])

EmptyMap == [t \in {} |-> <<>>]

NewPhaseRule(phaseName, matcher) ==
    [phase |-> phaseName,
     all |-> matcher.all,
     conditions |-> ConditionToStatusMap(matcher.matchers, 1, EmptyMap)]

\* the first loop keeping the first condition of a type
RECURSIVE CurrentConditionToStatusMapFirstWins(_, _, _)
CurrentConditionToStatusMapFirstWins(conds, i, m) ==
    IF i > Len(conds) THEN m
    ELSE CurrentConditionToStatusMapFirstWins(conds, i + 1,
            [t \in (DOMAIN m) \cup {conds[i].type} |->
                IF t \in DOMAIN m THEN m[t] ELSE conds[i].status])

\* the first loop of phaseRuleAll.Satisfies: type -> status, a later
\* condition of the same type overwrites an earlier one
RECURSIVE CurrentConditionToStatusMap(_, _, _)
CurrentConditionToStatusMap(conds, i, m) ==
    IF i > Len(conds) THEN m
    ELSE CurrentConditionToStatusMap(conds, i + 1,
            [t \in (DOMAIN m) \cup {conds[i].type} |->
                IF t = conds[i].type THEN conds[i].status ELSE m[t]])

\* phaseRuleAll.Satisfies accepting a required type the list lacks
SatisfiesAllMissingOk(r, conds) ==
    LET current == CurrentConditionToStatusMap(conds, 1, EmptyMap)
    IN \A required \in DOMAIN r.conditions :
          IF required \in DOMAIN current
          THEN Contains(r.conditions[required], current[required])
          ELSE TRUE

\* phaseRuleAll.Satisfies refusing a list without conditions
SatisfiesAllNeedsConditions(r, conds) ==
    LET current == CurrentConditionToStatusMap(conds, 1, EmptyMap)
    IN /\ Len(conds) > 0
       /\ \A required \in DOMAIN r.conditions :
             IF required \in DOMAIN current
             THEN Contains(r.conditions[required], current[required])
             ELSE FALSE

\* phaseRuleAll.Satisfies: the range over r.conditions returns false at the
\* first required type that is missing or has a status outside its list;
\* the result does not depend on the order of that range
SatisfiesAll(r, conds) ==
    LET current == CurrentConditionToStatusMap(conds, 1, EmptyMap)
    IN \A required \in DOMAIN r.conditions :
          IF required \in DOMAIN current
          THEN Contains(r.conditions[required], current[required])
          ELSE FALSE

\* phaseRuleAny.Satisfies looking at the last condition of the list only
SatisfiesAnyLastOnly(r, conds) ==
    /\ Len(conds) > 0
    /\ conds[Len(conds)].type \in DOMAIN r.conditions
    /\ Contains(r.conditions[conds[Len(conds)].type],
                conds[Len(conds)].status)

\* phaseRuleAny.Satisfies looking at the first condition of the list only
SatisfiesAnyFirstOnly(r, conds) ==
    /\ Len(conds) > 0
    /\ conds[1].type \in DOMAIN r.conditions
    /\ Contains(r.conditions[conds[1].type], conds[1].status)

\* phaseRuleAny.Satisfies
SatisfiesAny(r, conds) ==
    \E i \in 1..Len(conds) :
        /\ conds[i].type \in DOMAIN r.conditions
        /\ Contains(r.conditions[conds[i].type], conds[i].status)

\* Satisfies refusing a list that holds a type the rule does not name
SatisfiesOnlyReferenced(r, conds) ==
    /\ \A i \in 1..Len(conds) : conds[i].type \in DOMAIN r.conditions
    /\ IF r.all THEN SatisfiesAll(r, conds) ELSE SatisfiesAny(r, conds)

\* PhaseRule.Satisfies, dispatched on the type NewPhaseRule returned
Satisfies(r, conds) ==
    IF r.all THEN SatisfiesAll(r, conds) ELSE SatisfiesAny(r, conds)

\* ComputePhase returning the empty phase for a rule that is not satisfied
ComputePhaseEmptyWhenUnsatisfied(r, conds) ==
    IF Satisfies(r, conds) THEN r.phase ELSE ""

\* PhaseRule.ComputePhase
ComputePhase(r, conds) ==
    IF Satisfies(r, conds) THEN r.phase ELSE PhaseUnknown

\* the orders in which a range over a map with key set S can visit its keys
Orders(S) ==
    {o \in [1..Cardinality(S) -> S] :
        \A i, j \in 1..Cardinality(S) : o[i] = o[j] => i = j}

\* the second loop of phaseRuleAll.Satisfies deciding on the first key alone
SatisfiesAllInOrderFirstOnly(r, conds, order) ==
    LET current == CurrentConditionToStatusMap(conds, 1, EmptyMap)
    IN Len(order) > 0 =>
          /\ order[1] \in DOMAIN current
          /\ Contains(r.conditions[order[1]], current[order[1]])

\* the second loop of phaseRuleAll.Satisfies, from the k-th key of the
\* iteration order on: false at the first key that fails
RECURSIVE RequiredFrom(_, _, _, _)
RequiredFrom(r, current, order, k) ==
    IF k > Len(order) THEN TRUE
    ELSE IF order[k] \in DOMAIN current
    THEN IF ~Contains(r.conditions[order[k]], current[order[k]])
         THEN FALSE
         ELSE RequiredFrom(r, current, order, k + 1)
    ELSE FALSE

\* phaseRuleAll.Satisfies with the range over r.conditions visiting the
\* keys in the given order
SatisfiesAllInOrder(r, conds, order) ==
    RequiredFrom(r, CurrentConditionToStatusMap(conds, 1, EmptyMap), order, 1)

\* PhaseRule.ComputePhase under that iteration order
ComputePhaseInOrder(r, conds, order) ==
    IF (IF r.all THEN SatisfiesAllInOrder(r, conds, order)
        ELSE SatisfiesAny(r, conds))
    THEN r.phase ELSE PhaseUnknown

----------------------------------------------------------------------------
(* conditions/conditions.go *)

\* the metav1.Condition built at each SetStatusCondition call site from a
\* conditions.Condition c, the object's generation and metav1.Now()
NewCondition(c, gen, t) ==
    [type |-> c.type,
     status |-> c.status,
     reason |-> c.reason,
     message |-> c.message,
     lastTransitionTime |-> t,
     observedGeneration |-> gen]

\* a lookup that never finds the type
FindStatusConditionNone(conds, type) == 0

\* meta.FindStatusCondition: index of the first condition of that type, 0
\* when there is none
FindStatusCondition(conds, type) ==
    IF \E i \in 1..Len(conds) : conds[i].type = type
    THEN Min({i \in 1..Len(conds) : conds[i].type = type})
    ELSE 0

\* the upsert stamping lastTransitionTime on every write
UpsertedAlwaysRefresh(conds, newCondition) ==
    LET i == FindStatusCondition(conds, newCondition.type)
    IN IF i = 0
       THEN Append(conds, newCondition)
       ELSE [conds EXCEPT ![i] = newCondition]

\* the list meta.SetStatusCondition leaves behind: a new type is appended;
\* an existing one gets the new status (and, when the status differs, the new
\* lastTransitionTime), reason, message and observedGeneration in place
Upserted(conds, newCondition) ==
    LET i == FindStatusCondition(conds, newCondition.type)
    IN IF i = 0
       THEN Append(conds, newCondition)
       ELSE [conds EXCEPT ![i] =
                [@ EXCEPT
                    !.status = newCondition.status,
                    !.lastTransitionTime =
                        IF conds[i].status # newCondition.status
                        THEN newCondition.lastTransitionTime ELSE @,
                    !.reason = newCondition.reason,
                    !.message = newCondition.message,
                    !.observedGeneration = newCondition.observedGeneration]]

\* SetStatusCondition reporting a change only for a new type or status
SetStatusConditionStatusOnly(conds, newCondition) ==
    LET i == FindStatusCondition(conds, newCondition.type)
    IN [conditions |-> Upserted(conds, newCondition),
        changed |-> i = 0 \/ conds[i].status # newCondition.status]

\* SetStatusCondition comparing lastTransitionTime as well
SetStatusConditionTimeCompared(conds, newCondition) ==
    LET i == FindStatusCondition(conds, newCondition.type)
    IN [conditions |-> Upserted(conds, newCondition),
        changed |->
            \/ i = 0
            \/ conds[i].status # newCondition.status
            \/ conds[i].reason # newCondition.reason
            \/ conds[i].message # newCondition.message
            \/ conds[i].observedGeneration # newCondition.observedGeneration
            \/ conds[i].lastTransitionTime
                 # newCondition.lastTransitionTime]

\* SetStatusCondition not comparing observedGeneration
SetStatusConditionGenerationIgnored(conds, newCondition) ==
    LET i == FindStatusCondition(conds, newCondition.type)
    IN [conditions |-> Upserted(conds, newCondition),
        changed |->
            \/ i = 0
            \/ conds[i].status # newCondition.status
            \/ conds[i].reason # newCondition.reason
            \/ conds[i].message # newCondition.message]

\* meta.SetStatusCondition as called by the StatusManager: the list it
\* leaves and its result, true for a new type and for an existing one whose
\* status, reason, message or observedGeneration differed
SetStatusCondition(conds, newCondition) ==
    LET i == FindStatusCondition(conds, newCondition.type)
    IN [conditions |-> Upserted(conds, newCondition),
        changed |->
            \/ i = 0
            \/ conds[i].status # newCondition.status
            \/ conds[i].reason # newCondition.reason
            \/ conds[i].message # newCondition.message
            \/ conds[i].observedGeneration
                 # newCondition.observedGeneration]

\* the loop of SetConditions over the batch, from entry i on: every entry
\* assigns the variable changed
RECURSIVE SetConditionsLoop(_, _, _, _, _, _)
SetConditionsLoop(conds, batch, i, changed, gen, t) ==
    IF i > Len(batch) THEN [conditions |-> conds, changed |-> changed]
    ELSE LET r == SetStatusCondition(conds, NewCondition(batch[i], gen, t))
         IN SetConditionsLoop(r.conditions, batch, i + 1, r.changed, gen, t)

\* the loop over m.phaseRules, from rule i on: the phase of the first rule
\* that is satisfied, PhaseUnknown when the loop ends with ruleMatched false
RECURSIVE RecomputePhaseFrom(_, _, _)
RecomputePhaseFrom(rules, conds, i) ==
    IF i > Len(rules) THEN PhaseUnknown
    ELSE IF Satisfies(rules[i], conds) THEN rules[i].phase
    ELSE RecomputePhaseFrom(rules, conds, i + 1)

\* the rules, by index, that the list satisfies
SatisfiedRules(rules, conds) ==
    {i \in DOMAIN rules : Satisfies(rules[i], conds)}

\* the loop without its break: the last satisfied rule gives the phase
RecomputePhaseLastWins(rules, conds) ==
    LET S == SatisfiedRules(rules, conds)
    IN IF S = {} THEN PhaseUnknown
       ELSE rules[CHOOSE i \in S : \A j \in S : j <= i].phase

\* the loop without the ruleMatched fallback (the operator cannot see the
\* old phase; it yields the zero value)
RecomputePhaseNoFallback(rules, conds) ==
    IF SatisfiedRules(rules, conds) = {} THEN ""
    ELSE RecomputePhaseFrom(rules, conds, 1)

RecomputePhase(rules, conds) == RecomputePhaseFrom(rules, conds, 1)

\* statusClient.Status().Patch(ctx, object, client.MergeFrom(base)) when it
\* succeeds: the merge patch carries the status fields of the object that
\* differ from base (a list that differs is carried whole), and the server
\* keeps its own value of every other field
StatusPatch(store, base, cur) ==
    [f \in DOMAIN store |-> IF cur[f] # base[f] THEN cur[f] ELSE store[f]]

\* the tail with the object restored from base when the patch fails
RecomputeAndPatchRollback(rules, gen, base, cur, changed, store, ok) ==
    IF changed
    THEN LET new == [conditions |-> cur.conditions,
                     phase |-> RecomputePhase(rules, cur.conditions),
                     observedGeneration |-> gen]
         IN [status |-> IF ok THEN new ELSE base,
             sent |-> new,
             persisted |-> IF ok THEN StatusPatch(store, base, new)
                           ELSE store,
             ret |-> IF ok THEN "nil" ELSE "err",
             patches |-> 1]
    ELSE [status |-> cur, sent |-> cur, persisted |-> store,
          ret |-> "nil", patches |-> 0]

\* the tail without its test of changed
RecomputeAndPatchAlways(rules, gen, base, cur, changed, store, ok) ==
    LET new == [conditions |-> cur.conditions,
                phase |-> RecomputePhase(rules, cur.conditions),
                observedGeneration |-> gen]
    IN [status |-> new,
        sent |-> new,
        persisted |-> IF ok THEN StatusPatch(store, base, new) ELSE store,
        ret |-> IF ok THEN "nil" ELSE "err",
        patches |-> 1]

\* the tail leaving the observed generation as it was
RecomputeAndPatchNoGeneration(rules, gen, base, cur, changed, store, ok) ==
    IF changed
    THEN LET new == [conditions |-> cur.conditions,
                     phase |-> RecomputePhase(rules, cur.conditions),
                     observedGeneration |-> cur.observedGeneration]
         IN [status |-> new,
             sent |-> new,
             persisted |-> IF ok THEN StatusPatch(store, base, new)
                           ELSE store,
             ret |-> IF ok THEN "nil" ELSE "err",
             patches |-> 1]
    ELSE [status |-> cur, sent |-> cur, persisted |-> store,
          ret |-> "nil", patches |-> 0]

\* the tail of SetCondition and of SetConditions: when changed, recompute
\* the phase, set the observed generation, patch against base and return
\* the patch's error; otherwise return nil.  ok says whether the patch
\* succeeds.
RecomputeAndPatch(rules, gen, base, cur, changed, store, ok) ==
    IF changed
    THEN LET new == [conditions |-> cur.conditions,
                     phase |-> RecomputePhase(rules, cur.conditions),
                     observedGeneration |-> gen]
         IN [status |-> new,
             sent |-> new,
             persisted |-> IF ok THEN StatusPatch(store, base, new)
                           ELSE store,
             ret |-> IF ok THEN "nil" ELSE "err",
             patches |-> 1]
    ELSE [status |-> cur, sent |-> cur, persisted |-> store,
          ret |-> "nil", patches |-> 0]

----------------------------------------------------------------------------
(* The StatusManager as a state machine *)

Cond(type, status, reason, message) ==
    [type |-> type, status |-> status, reason |-> reason,
     message |-> message]

\* the conditions.Condition values given to SetCondition
Inputs ==
    {Cond("A", ConditionTrue, "r1", "m1"),
     Cond("A", ConditionFalse, "r1", "m1"),
     Cond("A", ConditionTrue, "r2", "m1"),
     Cond("A", ConditionTrue, "r1", "m2"),
     Cond("B", ConditionTrue, "r1", "m1")}

\* the batches given to SetConditions
BatchInputs ==
    {Cond("A", ConditionFalse, "r1", "m1"),
     Cond("B", ConditionTrue, "r1", "m1")}

Batches == SeqUpTo(BatchInputs, MaxBatch)

NoArg == Cond("", "", "", "")

\* the arguments of one NewPhaseRule(phase, ConditionsAll/Any(children...))
\* call
RuleArgs(phaseName, all, children) ==
    [phase |-> phaseName, all |-> all, children |-> children]

\* the rules built from a list of such arguments
Build(args) ==
    [i \in DOMAIN args |->
        NewPhaseRule(args[i].phase,
                     ConditionsOf(args[i].all, args[i].children))]

\* the rule lists a StatusManager is constructed with
ArgsNone == <<>>

ArgsReady ==
    <<RuleArgs("Ready", TRUE,
        <<ConditionEquals("A", <<ConditionTrue>>),
          ConditionEquals("B", <<ConditionTrue>>)>>),
      RuleArgs("Progressing", FALSE,
        <<ConditionEquals("A", <<ConditionTrue>>),
          ConditionEquals("B", <<ConditionTrue>>)>>)>>

ArgsFailed ==
    <<RuleArgs("Failed", FALSE,
        <<ConditionEquals("A", <<ConditionFalse>>)>>),
      RuleArgs("Ready", TRUE,
        <<ConditionEquals("A", <<ConditionTrue, ConditionUnknown>>)>>)>>

RulesNone == Build(ArgsNone)

RulesReady == Build(ArgsReady)

RulesFailed == Build(ArgsFailed)

RuleLists == {RulesNone, RulesReady, RulesFailed}

Status == [conditions |-> conditions, phase |-> phase,
           observedGeneration |-> observedGeneration]

\* a just-created object: no conditions, zero-valued phase and observed
\* generation
FreshStatus == [conditions |-> <<>>, phase |-> "", observedGeneration |-> 0]

\* an object read back from the API server, whose status was written when
\* its generation was 1
LoadedStatus(rules) ==
    LET conds == <<NewCondition(Cond("A", ConditionTrue, "r1", "m1"), 1, 0)>>
    IN [conditions |-> conds, phase |-> RecomputePhase(rules, conds),
        observedGeneration |-> 1]

\* the objects a StatusManager is constructed on: a new one, and one whose
\* spec was changed after its status was last written
Objects(rules) ==
    {[generation |-> 1, status |-> FreshStatus],
     [generation |-> 2, status |-> LoadedStatus(rules)]}

\* call: what the latest call did
\*   op       the method called, "none" before the first call
\*   arg      the condition given to SetCondition
\*   prev     the error the preceding call returned, when that call was a
\*            SetCondition with the same arguments; "none" otherwise
\*   base     the copy of the object taken on entry
\*   any      whether SetStatusCondition reported a change for some entry
\*   patches  how many times Status().Patch was called
\*   sent     the object handed to Patch
\*   patchErr the error Patch returned
\*   entry    the object as it was when the call was entered
\*   repeats  whether the batch given to SetConditions named a type twice
\*   argNil   whether the list given to Satisfies was a nil slice
\*   before   the method of the rule called before this one
Idle == [op |-> "none", arg |-> NoArg, prev |-> "none", base |-> FreshStatus,
         any |-> FALSE, patches |-> 0, sent |-> FreshStatus,
         patchErr |-> "none", entry |-> FreshStatus, repeats |-> FALSE,
         argNil |-> FALSE, before |-> "none"]

CallOps == {"SetCondition", "SetConditions"}

\* NewManager(statusClient, conditions, object, rules)
Init ==
    /\ built \in {ArgsNone, ArgsReady, ArgsFailed}
    /\ phaseRules = Build(built)
    /\ phaseRules \in RuleLists
    /\ \E o \in Objects(phaseRules) :
          /\ generation = o.generation
          /\ conditions = o.status.conditions
          /\ phase = o.status.phase
          /\ observedGeneration = o.status.observedGeneration
          /\ persisted = o.status
    /\ now = 0
    /\ call = Idle
    /\ ret = "none"
    /\ satisfied = FALSE
    /\ calls = 0

\* whether some entry of the batch, from entry i on, made SetStatusCondition
\* report a change
RECURSIVE AnyChanged(_, _, _, _, _)
AnyChanged(conds, batch, i, gen, t) ==
    IF i > Len(batch) THEN FALSE
    ELSE LET r == SetStatusCondition(conds, NewCondition(batch[i], gen, t))
         IN r.changed \/ AnyChanged(r.conditions, batch, i + 1, gen, t)

\* whether two entries of the batch name the same type
NamesTypeTwice(batch) ==
    \E i, j \in 1..Len(batch) : i # j /\ batch[i].type = batch[j].type

\* the state a call leaves behind; r is the result of RecomputeAndPatch
Return(op, arg, entry, base, any, repeats, ok, r) ==
    /\ r.patches = 0 => ok
    /\ conditions' = r.status.conditions
    /\ phase' = r.status.phase
    /\ observedGeneration' = r.status.observedGeneration
    /\ persisted' = r.persisted
    /\ ret' = r.ret
    /\ call' = [op |-> op, arg |-> arg,
                prev |-> IF call.op = "SetCondition" /\ op = "SetCondition"
                            /\ call.arg = arg
                         THEN ret ELSE "none",
                base |-> base, any |-> any, patches |-> r.patches,
                sent |-> r.sent,
                patchErr |-> IF r.patches = 0 THEN "none"
                             ELSE IF ok THEN "nil" ELSE "err",
                entry |-> entry, repeats |-> repeats, argNil |-> FALSE,
                before |-> "none"]
    /\ UNCHANGED <<phaseRules, generation, now, satisfied, built>>

\* SetCondition taking its base snapshot after the upsert
SetConditionLateBase(c, ok) ==
    /\ calls < MaxCalls
    /\ calls' = calls + 1
    /\ LET s == SetStatusCondition(conditions,
                                   NewCondition(c, generation, now))
           cur == [Status EXCEPT !.conditions = s.conditions]
           base == cur
       IN Return("SetCondition", c, Status, base, s.changed, FALSE, ok,
                 RecomputeAndPatch(phaseRules, generation, base, cur,
                                   s.changed, persisted, ok))

\* StatusManager.SetCondition(ctx, c.type, c.status, c.reason, c.message);
\* ok: whether the status patch, if one is issued, succeeds
SetCondition(c, ok) ==
    /\ calls < MaxCalls
    /\ calls' = calls + 1
    /\ LET base == Status
           s == SetStatusCondition(conditions,
                                   NewCondition(c, generation, now))
           cur == [base EXCEPT !.conditions = s.conditions]
       IN Return("SetCondition", c, Status, base, s.changed, FALSE, ok,
                 RecomputeAndPatch(phaseRules, generation, base, cur,
                                   s.changed, persisted, ok))

\* StatusManager.SetConditions(ctx, batch)
SetConditions(batch, ok) ==
    /\ calls < MaxCalls
    /\ calls' = calls + 1
    /\ LET base == Status
           s == SetConditionsLoop(conditions, batch, 1, FALSE, generation,
                                  now)
           cur == [base EXCEPT !.conditions = s.conditions]
       IN Return("SetConditions", NoArg, Status, base,
                 AnyChanged(conditions, batch, 1, generation, now),
                 NamesTypeTwice(batch), ok,
                 RecomputeAndPatch(phaseRules, generation, base, cur,
                                   s.changed, persisted, ok))

\* time passes between two calls
Tick ==
    /\ now < MaxNow
    /\ now' = now + 1
    /\ UNCHANGED <<phaseRules, generation, conditions, phase,
                   observedGeneration, persisted, call, ret, satisfied,
                   calls, built>>

Next ==
    \/ \E c \in Inputs, ok \in BOOLEAN : SetCondition(c, ok)
    \/ \E batch \in Batches, ok \in BOOLEAN : SetConditions(batch, ok)
    \/ Tick

Spec == Init /\ [][Next]_vars

----------------------------------------------------------------------------
(* Satisfies and ComputePhase on their own *)

\* the status lists given to ConditionEquals
StatusChoices ==
    {<<ConditionTrue>>, <<ConditionFalse>>,
     <<ConditionTrue, ConditionUnknown>>}

Leaves == {ConditionEquals(t, s) : t \in Types, s \in StatusChoices}

RuleUniverse ==
    {NewPhaseRule("Ready", ConditionsOf(all, ml)) :
        all \in BOOLEAN, ml \in SeqUpTo(Leaves, MaxChildren)}

\* the condition lists given to Satisfies
CondLists ==
    SeqUpTo({NewCondition(Cond(t, s, "r1", "m1"), 1, 0) :
                t \in Types, s \in Statuses}, MaxLen)

\* a slice of conditions as Go passes it: the nil slice has no items, and
\* len and range treat it as the empty slice
Slice(isNil, items) == [isNil |-> isNil, items |-> items]

NilSlice == Slice(TRUE, <<>>)

\* the arguments given to Satisfies and ComputePhase
CondArgs == {NilSlice} \cup {Slice(FALSE, l) : l \in CondLists}

InitRules ==
    /\ \E all \in BOOLEAN, ml \in SeqUpTo(Leaves, MaxChildren) :
          built = <<RuleArgs("Ready", all, ml)>>
    /\ phaseRules = Build(built)
    /\ phaseRules[1] \in RuleUniverse
    /\ generation = 1
    /\ conditions = <<>>
    /\ phase = ""
    /\ observedGeneration = 0
    /\ persisted = FreshStatus
    /\ now = 0
    /\ call = Idle
    /\ ret = "none"
    /\ satisfied = FALSE
    /\ calls = 0

\* rule.Satisfies(conds)
CallSatisfies(conds) ==
    /\ calls = 0
    /\ calls' = 1
    /\ conditions' = conds.items
    /\ satisfied' = Satisfies(phaseRules[1], conds.items)
    /\ call' = [Idle EXCEPT !.op = "Satisfies", !.argNil = conds.isNil]
    /\ UNCHANGED <<phaseRules, generation, phase, observedGeneration,
                   persisted, now, ret, built>>

\* rule.ComputePhase(conds)
CallComputePhase(conds) ==
    /\ calls = 0
    /\ calls' = 1
    /\ conditions' = conds.items
    /\ phase' = ComputePhase(phaseRules[1], conds.items)
    /\ call' = [Idle EXCEPT !.op = "ComputePhase", !.argNil = conds.isNil]
    /\ UNCHANGED <<phaseRules, generation, observedGeneration, persisted,
                   now, ret, satisfied, built>>

\* the list with a condition of status Unknown appended for every type of S
RECURSIVE WithUnknown(_, _)
WithUnknown(conds, S) ==
    IF S = {} THEN conds
    ELSE LET t == CHOOSE x \in S : TRUE
         IN WithUnknown(
                Append(conds,
                    NewCondition(Cond(t, ConditionUnknown, "", ""), 0, 0)),
                S \ {t})

\* the orders a range over the map of some rule can take
MapOrders == UNION {Orders(S) : S \in SUBSET Types}

\* the second evaluation leaving the missing types in the caller's list
CallComputePhaseAgainAugmenting(order) ==
    /\ calls = 1
    /\ now < MaxNow
    /\ order \in Orders(DOMAIN phaseRules[1].conditions)
    /\ calls' = 2
    /\ now' = now + 1
    /\ phase' = ComputePhaseInOrder(phaseRules[1], conditions, order)
    /\ conditions' =
          WithUnknown(conditions,
              {t \in DOMAIN phaseRules[1].conditions :
                  FindStatusCondition(conditions, t) = 0})
    /\ call' = [call EXCEPT !.op = "ComputePhaseAgain", !.entry = Status,
                            !.before = call.op]
    /\ UNCHANGED <<phaseRules, generation, observedGeneration,
                   persisted, ret, satisfied, built>>

\* rule.ComputePhase on the same rule and the same list some time after an
\* earlier evaluation; order is the order in which the range over the map
\* r.conditions visits its keys this time
CallComputePhaseAgain(order) ==
    /\ calls = 1
    /\ now < MaxNow
    /\ order \in Orders(DOMAIN phaseRules[1].conditions)
    /\ calls' = 2
    /\ now' = now + 1
    /\ phase' = ComputePhaseInOrder(phaseRules[1], conditions, order)
    /\ call' = [call EXCEPT !.op = "ComputePhaseAgain", !.entry = Status,
                            !.before = call.op]
    /\ UNCHANGED <<phaseRules, generation, conditions, observedGeneration,
                   persisted, ret, satisfied, built>>

NextRules ==
    \/ \E conds \in CondArgs : CallSatisfies(conds)
    \/ \E conds \in CondArgs : CallComputePhase(conds)
    \/ \E order \in MapOrders : CallComputePhaseAgain(order)

SpecRules == InitRules /\ [][NextRules]_vars

----------------------------------------------------------------------------
(* Properties *)

\* the phase the rule list assigns to a condition list: that of the
\* satisfied rule of least index, PhaseUnknown when there is none
ExpectedPhase(rules, conds) ==
    LET S == SatisfiedRules(rules, conds)
    IN IF S = {} THEN PhaseUnknown ELSE rules[Min(S)].phase

\* whether c names a type the list lacks, or differs from the stored
\* condition of its type in status, reason or message
Differs(conds, c) ==
    LET i == FindStatusCondition(conds, c.type)
    IN \/ i = 0
       \/ conds[i].status # c.status
       \/ conds[i].reason # c.reason
       \/ conds[i].message # c.message

\* C1: a SetConditions call issues exactly one status patch when at least
\* one entry of the batch changed the condition list, wherever that entry
\* stands in the batch, and none when no entry changed anything.
C1_OnePatchPerChangingBatch ==
    call.op = "SetConditions" =>
        call.patches = (IF call.any THEN 1 ELSE 0)

\* C2: when a call that modified the condition list has returned, the phase
\* is the phase of the first rule the current list satisfies, or Unknown.
C2_PhaseInSync ==
    (call.op \in CallOps /\ conditions # call.base.conditions) =>
        phase = ExpectedPhase(phaseRules, conditions)

\* C3: the phase a call computes is the Phase() of the earliest rule, in
\* declaration order, that the condition list satisfies; of two satisfied
\* rules the earlier one wins.
C3_FirstRuleWins ==
    (call.op \in CallOps /\ call.patches = 1) =>
        \A i \in DOMAIN phaseRules :
            (/\ Satisfies(phaseRules[i], conditions)
             /\ \A j \in 1..(i - 1) : ~Satisfies(phaseRules[j], conditions))
            => phase = phaseRules[i].phase

C3_Witness ==
    /\ call.op \in CallOps
    /\ call.patches = 1
    /\ Cardinality(SatisfiedRules(phaseRules, conditions)) >= 2
    /\ phase = phaseRules[1].phase
    /\ phaseRules[1].phase # phaseRules[2].phase

\* C4: when no rule is satisfied by the condition list, the rule list being
\* empty included, the phase a call computes and writes is "Unknown".
C4_NoMatchIsUnknown ==
    (/\ call.op \in CallOps
     /\ call.patches = 1
     /\ \A i \in DOMAIN phaseRules : ~Satisfies(phaseRules[i], conditions))
    => phase = "Unknown"

C4_Witness ==
    /\ call.op \in CallOps
    /\ call.patches = 1
    /\ phaseRules # <<>>
    /\ \A i \in DOMAIN phaseRules : ~Satisfies(phaseRules[i], conditions)
    /\ phase = "Unknown"
    /\ call.base.phase # "Unknown"

\* C5: SetCondition issues exactly one status patch when the call changed
\* the stored condition list, as a new type or a different status, reason or
\* message does, and no patch when it did not.
C5_PatchIffChanged ==
    call.op = "SetCondition" =>
        /\ call.patches = (IF conditions # call.base.conditions THEN 1 ELSE 0)
        /\ Differs(call.base.conditions, call.arg) => call.patches = 1

C5_Witness ==
    /\ call.op = "SetCondition"
    /\ call.patches = 1
    /\ FindStatusCondition(call.base.conditions, call.arg.type) # 0
    /\ Differs(call.base.conditions, call.arg)

\* C6: a SetCondition call that follows a SetCondition call with the same
\* type, status, reason and message detects no change and issues no patch,
\* whether the patch of the first call succeeded or failed.
C6_RepeatIsNoOp ==
    call.prev # "none" =>
        /\ ~call.any
        /\ call.patches = 0
        /\ conditions = call.base.conditions

C6_Witness ==
    /\ call.prev = "err"
    /\ call.patches = 0
    /\ persisted.conditions # conditions

\* C7: once a call completes a status patch successfully, the persisted
\* status (conditions, phase, observed generation) equals the in-memory
\* status, the changes of an earlier call whose patch failed included.
C7_Repersisted ==
    (call.op \in CallOps /\ call.patches = 1 /\ ret = "nil") =>
        persisted = Status

\* C8: when the status patch fails the call returns that error, having
\* called Patch once, and the in-memory condition list, phase and observed
\* generation keep the values the call wrote: the object is as it was
\* handed to Patch, not as it was on entry.
C8_ErrorKeepsNewState ==
    call.op \in CallOps =>
        /\ ret = "err" <=> call.patchErr = "err"
        /\ ret = "err" =>
              /\ call.patches = 1
              /\ Status = call.sent
              /\ observedGeneration = generation
              /\ phase = ExpectedPhase(phaseRules, conditions)
              /\ call.op = "SetCondition" =>
                    ~Differs(conditions, call.arg)

C8_Witness ==
    /\ call.op \in CallOps
    /\ ret = "err"
    /\ conditions # call.base.conditions
    /\ phase # call.base.phase
    /\ observedGeneration # call.base.observedGeneration

\* C9: a call in which no entry changes the condition list leaves the
\* list, the phase and the observed generation as they were on entry and
\* returns nil; the phase and the observed generation are written only by
\* calls that changed the list.
C9_NoChangeNoWrite ==
    call.op \in CallOps =>
        /\ ~call.any =>
              /\ Status = call.base
              /\ ret = "nil"
              /\ call.patches = 0
        /\ (\/ phase # call.base.phase
            \/ observedGeneration # call.base.observedGeneration)
           => call.any

C9_Witness ==
    /\ call.op \in CallOps
    /\ ~call.any
    /\ conditions # <<>>
    /\ observedGeneration # generation

\* C10: a type a rule references and the list lacks is evaluated as if a
\* condition of that type with status Unknown were present: Satisfies gives
\* the same result on the list and on the list with {T, Unknown} added.
C10_MissingIsUnknown ==
    call.op = "Satisfies" =>
        \A t \in DOMAIN phaseRules[1].conditions :
            FindStatusCondition(conditions, t) = 0 =>
                satisfied =
                    Satisfies(phaseRules[1],
                        Append(conditions,
                            NewCondition(Cond(t, ConditionUnknown, "r1", "m1"),
                                         1, 0)))

----------------------------------------------------------------------------
(* the rule a Satisfies call evaluates, seen through its arguments *)

\* the rule under evaluation was built by ConditionsAll / ConditionsAny
IsAll == built[1].all

\* its children, each the result of one ConditionEquals call
Children == built[1].children

ChildType(child) == child[1].condition

ChildStatuses(child) == {child[k].status : k \in 1..Len(child)}

\* the children name pairwise distinct condition types
DistinctChildTypes ==
    \A i, j \in 1..Len(Children) :
        i # j => ChildType(Children[i]) # ChildType(Children[j])

\* the list holds a condition of the child's type with one of its statuses
Holds(conds, child) ==
    \E i \in 1..Len(conds) :
        /\ conds[i].type = ChildType(child)
        /\ conds[i].status \in ChildStatuses(child)

\* the last condition of the child's type in the list has one of its statuses
LastHolds(conds, child) ==
    LET at == {i \in 1..Len(conds) : conds[i].type = ChildType(child)}
    IN at # {} /\ conds[Max(at)].status \in ChildStatuses(child)

\* the list without its i-th condition
Without(conds, i) ==
    [k \in 1..(Len(conds) - 1) |-> IF k < i THEN conds[k] ELSE conds[k + 1]]

\* C11: when the condition list is absent (nil, not merely empty) Satisfies
\* returns false for every rule, a ConditionsAll rule without children
\* included.
C11_NilIsFalse ==
    (call.op = "Satisfies" /\ call.argNil) => ~satisfied

\* C12: a ConditionsAll rule with no children is satisfied by every list that
\* is present, empty or not; a ConditionsAny rule with no children is
\* satisfied by no list.
C12_EmptyRule ==
    (call.op = "Satisfies" /\ ~call.argNil /\ Children = <<>>) =>
        (satisfied <=> IsAll)

C12_Witness ==
    /\ call.op = "Satisfies"
    /\ ~call.argNil
    /\ Children = <<>>
    /\ IsAll
    /\ Len(conditions) = MaxLen
    /\ satisfied

\* C14 as stated: a ConditionsAll rule whose children name pairwise distinct
\* types is satisfied exactly when, for every child, the list holds a
\* condition of the child's type whose status is one of the child's statuses.
C14_AllIffEveryChildHeld ==
    (call.op = "Satisfies" /\ IsAll /\ DistinctChildTypes) =>
        (satisfied <=> \A k \in 1..Len(Children) :
                          Holds(conditions, Children[k]))

\* C14 amended: such a rule is satisfied exactly when, for every child, the
\* list holds a condition of the child's type and the last one of that type
\* has one of the child's statuses; a missing type or a status outside the
\* set leaves it unsatisfied.
C14_AllIffEveryChildLastHeld ==
    (call.op = "Satisfies" /\ IsAll /\ DistinctChildTypes) =>
        /\ satisfied <=> \A k \in 1..Len(Children) :
                            LastHolds(conditions, Children[k])
        /\ (\E k \in 1..Len(Children) :
               FindStatusCondition(conditions, ChildType(Children[k])) = 0)
           => ~satisfied

C14_Witness ==
    /\ call.op = "Satisfies"
    /\ IsAll
    /\ DistinctChildTypes
    /\ Len(Children) = 2
    /\ Len(conditions) = 2
    /\ satisfied

\* C15: a ConditionsAny rule is satisfied exactly when at least one condition
\* of the list has a type named by one of the children and a status among
\* that child's statuses; it stays satisfied when several children match.
C15_AnyIffSomeChildHeld ==
    (call.op = "Satisfies" /\ ~IsAll) =>
        (satisfied <=> \E k \in 1..Len(Children) :
                          Holds(conditions, Children[k]))

C15_Witness ==
    /\ call.op = "Satisfies"
    /\ ~IsAll
    /\ Len(Children) = 2
    /\ DistinctChildTypes
    /\ \A k \in 1..Len(Children) : Holds(conditions, Children[k])
    /\ satisfied

\* C16: Satisfies ignores conditions whose type no child of the rule names:
\* adding such a condition to the list, or removing one from it, does not
\* change the result.
C16_UnreferencedIgnored ==
    call.op = "Satisfies" =>
        /\ \A t \in Types \ DOMAIN phaseRules[1].conditions :
           \A s \in Statuses :
              satisfied =
                  Satisfies(phaseRules[1],
                      Append(conditions,
                          NewCondition(Cond(t, s, "r1", "m1"), 1, 0)))
        /\ \A i \in 1..Len(conditions) :
              conditions[i].type \notin DOMAIN phaseRules[1].conditions =>
                  satisfied = Satisfies(phaseRules[1], Without(conditions, i))

C16_Witness ==
    /\ call.op = "Satisfies"
    /\ Children # <<>>
    /\ \E i \in 1..Len(conditions) :
          conditions[i].type \notin DOMAIN phaseRules[1].conditions
    /\ satisfied

----------------------------------------------------------------------------
(* nested matchers: ConditionsAll / ConditionsAny taking matchers of either
   kind as children, as phase_rule_test.go builds them *)

NestedTypes == <<"A", "B", "C">>

\* a matcher for one condition type and the statuses it allows
Leaf(type, allowed) ==
    [kind |-> "leaf", type |-> type, allowed |-> allowed, children |-> <<>>]

\* ConditionsAll(children...) / ConditionsAny(children...)
Composite(all, children) ==
    [kind |-> IF all THEN "all" ELSE "any", type |-> "", allowed |-> {},
     children |-> children]

\* the condition types named anywhere in the matcher
RECURSIVE ReferencedTypes(_)
ReferencedTypes(p) ==
    IF p.kind = "leaf" THEN {p.type}
    ELSE UNION {ReferencedTypes(p.children[k]) : k \in 1..Len(p.children)}

\* the leaves of the matcher, whatever their depth
RECURSIVE LeavesOf(_)
LeavesOf(p) ==
    IF p.kind = "leaf" THEN {p}
    ELSE UNION {LeavesOf(p.children[k]) : k \in 1..Len(p.children)}

\* evaluation that lets the outermost matcher decide over all leaves
MatchesFlattened(p, conds) ==
    LET held(l) == \E i \in 1..Len(conds) :
                      conds[i].type = l.type /\ conds[i].status \in l.allowed
    IN IF p.kind = "leaf" THEN held(p)
       ELSE IF p.kind = "all" THEN \A l \in LeavesOf(p) : held(l)
       ELSE \E l \in LeavesOf(p) : held(l)

\* evaluation of a matcher against a list that lacks no referenced type
RECURSIVE MatchesTree(_, _)
MatchesTree(p, conds) ==
    IF p.kind = "leaf"
    THEN \E i \in 1..Len(conds) :
            conds[i].type = p.type /\ conds[i].status \in p.allowed
    ELSE IF p.kind = "all"
    THEN \A k \in 1..Len(p.children) : MatchesTree(p.children[k], conds)
    ELSE \E k \in 1..Len(p.children) : MatchesTree(p.children[k], conds)

\* the list with a condition of status Unknown added for every referenced
\* type it lacks; the caller's list is left alone
RECURSIVE Augmented(_, _, _)
Augmented(p, conds, k) ==
    IF k > Len(NestedTypes) THEN conds
    ELSE LET t == NestedTypes[k]
         IN IF t \in ReferencedTypes(p) /\ FindStatusCondition(conds, t) = 0
            THEN Augmented(p,
                    Append(conds,
                        NewCondition([type |-> t, status |-> ConditionUnknown,
                                      reason |-> "", message |-> ""], 0, 0)),
                    k + 1)
            ELSE Augmented(p, conds, k + 1)

\* Satisfies of a rule built from a nested matcher: false for the nil list,
\* else the matcher evaluated on the augmented list
Matches(p, conds) ==
    IF conds.isNil THEN FALSE
    ELSE MatchesTree(p, Augmented(p, conds.items, 1))

NestedLeaves == {Leaf(NestedTypes[k], {ConditionTrue}) : k \in 1..Len(NestedTypes)}

\* matchers of the shape Outer(Inner(leaves...), leaf)
NestedMatchers ==
    {Composite(o, <<Composite(i, kids), l>>) :
        o \in BOOLEAN, i \in BOOLEAN,
        kids \in SeqUpTo(NestedLeaves, MaxChildren), l \in NestedLeaves}

\* lists holding each type at most once, in the order of NestedTypes
RECURSIVE ListOf(_, _)
ListOf(f, k) ==
    IF k > Len(NestedTypes) THEN <<>>
    ELSE (IF f[k] = "absent" THEN <<>>
          ELSE <<NewCondition(Cond(NestedTypes[k], f[k], "r1", "m1"), 1, 0)>>)
         \o ListOf(f, k + 1)

NestedLists ==
    {ListOf(f, 1) : f \in [1..Len(NestedTypes) -> Statuses \cup {"absent"}]}

NestedArgs == {NilSlice} \cup {Slice(FALSE, l) : l \in NestedLists}

InitNested ==
    /\ \E m \in NestedMatchers :
          phaseRules = <<[phase |-> "Ready", matcher |-> m]>>
    /\ built = <<>>
    /\ generation = 1
    /\ conditions = <<>>
    /\ phase = ""
    /\ observedGeneration = 0
    /\ persisted = FreshStatus
    /\ now = 0
    /\ call = Idle
    /\ ret = "none"
    /\ satisfied = FALSE
    /\ calls = 0

CallMatches(conds) ==
    /\ calls = 0
    /\ calls' = 1
    /\ conditions' = conds.items
    /\ satisfied' = Matches(phaseRules[1].matcher, conds)
    /\ call' = [Idle EXCEPT !.op = "Matches", !.argNil = conds.isNil]
    /\ UNCHANGED <<phaseRules, generation, phase, observedGeneration,
                   persisted, now, ret, built>>

NextNested == \E conds \in NestedArgs : CallMatches(conds)

SpecNested == InitNested /\ [][NextNested]_vars

\* the list holds a condition of type t with status True
IsTrue(t) ==
    \E i \in 1..Len(conditions) :
        conditions[i].type = t /\ conditions[i].status = ConditionTrue

AllOfAnyABAndC ==
    Composite(TRUE,
        <<Composite(FALSE, <<Leaf("A", {ConditionTrue}),
                             Leaf("B", {ConditionTrue})>>),
          Leaf("C", {ConditionTrue})>>)

AnyOfEmptyAnyAndA ==
    Composite(FALSE, <<Composite(FALSE, <<>>), Leaf("A", {ConditionTrue})>>)

----------------------------------------------------------------------------
(* the StatusManager: upsert, snapshot and phase range *)

\* C17: SetCondition for a type the list holds, with the same status but
\* another reason or message, counts as a change: reason and message are
\* updated, the phase is recomputed and the status is patched, while
\* LastTransitionTime stays as it was; LastTransitionTime moves only when the
\* status changes (or the condition is inserted).
C17_ReasonMessageChange ==
    call.op = "SetCondition" =>
        LET old == call.entry.conditions
            i == FindStatusCondition(old, call.arg.type)
        IN /\ (/\ i # 0
               /\ old[i].status = call.arg.status
               /\ \/ old[i].reason # call.arg.reason
                  \/ old[i].message # call.arg.message)
              => /\ call.any
                 /\ call.patches = 1
                 /\ conditions[i].reason = call.arg.reason
                 /\ conditions[i].message = call.arg.message
                 /\ phase = ExpectedPhase(phaseRules, conditions)
                 /\ conditions[i].lastTransitionTime =
                        old[i].lastTransitionTime
           /\ \A k \in 1..Len(old) :
                 conditions[k].lastTransitionTime # old[k].lastTransitionTime
                 => conditions[k].status # old[k].status

C17_Witness ==
    /\ call.op = "SetCondition"
    /\ LET old == call.entry.conditions
           i == FindStatusCondition(old, call.arg.type)
       IN /\ i # 0
          /\ old[i].status = call.arg.status
          /\ old[i].reason # call.arg.reason
          /\ conditions[i].reason = call.arg.reason
          /\ conditions[i].lastTransitionTime < now
    /\ call.patches = 1

\* C18: in every reachable state the condition list holds at most one
\* condition per type, also after a SetConditions batch that names the same
\* type more than once.
C18_OnePerType ==
    \A i, j \in 1..Len(conditions) :
        conditions[i].type = conditions[j].type => i = j

C18_Witness ==
    /\ call.op = "SetConditions"
    /\ call.repeats
    /\ call.any
    /\ Len(conditions) = 2

\* C19: the base the patch is computed against is the object as it was when
\* the call was entered, before the first upsert, so a patch that succeeds
\* carries every change the call made to conditions, phase and observed
\* generation.
C19_BaseIsEntry ==
    call.op \in CallOps =>
        /\ call.base = call.entry
        /\ (call.patches = 1 /\ call.patchErr = "nil") =>
              \A f \in DOMAIN Status :
                  Status[f] # call.entry[f] => persisted[f] = Status[f]

C19_Witness ==
    /\ call.op \in CallOps
    /\ call.patches = 1
    /\ call.patchErr = "nil"
    /\ \A f \in DOMAIN Status : Status[f] # call.entry[f]
    /\ persisted = Status

\* the phases the rules of the StatusManager can give
RulePhases == {phaseRules[i].phase : i \in DOMAIN phaseRules}

\* C20 as stated: in every reachable state the phase of the object is the
\* Phase() of one of the rules or Unknown.
C20_PhaseInRange ==
    phase \in RulePhases \cup {PhaseUnknown}

\* C20 amended: every phase a call writes is the Phase() of one of the rules
\* or Unknown; a call that does not write leaves the phase as it found it, so
\* the phase is one of those values or the empty phase of an object no call
\* has written yet.
C20_WrittenPhaseInRange ==
    /\ phase \in RulePhases \cup {PhaseUnknown, ""}
    /\ call.op \in CallOps =>
          IF call.patches = 1
          THEN phase \in RulePhases \cup {PhaseUnknown}
          ELSE phase = call.entry.phase

C20_Witness ==
    /\ call.op \in CallOps
    /\ call.patches = 1
    /\ call.entry.phase = ""
    /\ phase \in RulePhases

----------------------------------------------------------------------------
(* the StatusManager: observed generation *)

\* C21: a call that writes the phase sets the observed generation to the
\* generation of the object in the same call, before the patch, and no call
\* writes one of the two without the other: the object handed to Patch has
\* the phase of its own conditions and the current generation.
C21_PhaseWithGeneration ==
    call.op \in CallOps =>
        /\ call.patches = 1 =>
              /\ call.sent.phase =
                     ExpectedPhase(phaseRules, call.sent.conditions)
              /\ call.sent.observedGeneration = generation
              /\ phase = call.sent.phase
              /\ observedGeneration = generation
        /\ call.patches = 0 =>
              /\ phase = call.entry.phase
              /\ observedGeneration = call.entry.observedGeneration

C21_Witness ==
    /\ call.op \in CallOps
    /\ call.patches = 1
    /\ call.entry.observedGeneration # generation
    /\ call.entry.phase # phase
    /\ call.sent.observedGeneration = generation

\* C29: every condition a call writes carries the generation of the object
\* as its ObservedGeneration; so a SetCondition call whose type, status,
\* reason and message equal the stored condition still counts as a change,
\* recomputes the phase and patches when the generation of the object
\* differs from the ObservedGeneration of the stored condition.
C29_GenerationCountsAsChange ==
    call.op \in CallOps =>
        LET old == call.entry.conditions
        IN /\ \A k \in 1..Len(conditions) :
                 (k > Len(old) \/ conditions[k] # old[k])
                 => conditions[k].observedGeneration = generation
           /\ call.op = "SetCondition" =>
                 LET i == FindStatusCondition(old, call.arg.type)
                 IN (/\ i # 0
                     /\ old[i].status = call.arg.status
                     /\ old[i].reason = call.arg.reason
                     /\ old[i].message = call.arg.message
                     /\ old[i].observedGeneration # generation)
                    => /\ call.any
                       /\ call.patches = 1
                       /\ conditions[i].observedGeneration = generation
                       /\ phase = ExpectedPhase(phaseRules, conditions)

C29_Witness ==
    /\ call.op = "SetCondition"
    /\ LET old == call.entry.conditions
           i == FindStatusCondition(old, call.arg.type)
       IN /\ i # 0
          /\ old[i].status = call.arg.status
          /\ old[i].reason = call.arg.reason
          /\ old[i].message = call.arg.message
          /\ old[i].observedGeneration # generation
          /\ conditions[i].observedGeneration = generation
    /\ call.patches = 1

----------------------------------------------------------------------------
(* rule evaluation: determinism and effects *)

\* C22: rule evaluation is deterministic: for a fixed rule and a fixed
\* condition list a repeated evaluation returns the same phase, whatever
\* time has passed and in whatever order the map of the rule is iterated.
C22_Deterministic ==
    (call.op = "ComputePhaseAgain" /\ call.before = "ComputePhase") =>
        phase = call.entry.phase

C22_Witness ==
    /\ call.op = "ComputePhaseAgain"
    /\ call.before = "ComputePhase"
    /\ IsAll
    /\ Cardinality(DOMAIN phaseRules[1].conditions) = 2
    /\ Len(conditions) = 2
    /\ now > 0
    /\ phase = PhaseUnknown

\* C23: Satisfies and ComputePhase have no side effects: the list of the
\* caller is as it was given (nothing is added to it), the rule is as it was
\* built, and an evaluation that follows another one on the same rule
\* returns what it returns on a rule of its own.
C23_NoSideEffects ==
    /\ phaseRules = Build(built)
    /\ call.op = "ComputePhaseAgain" =>
          /\ conditions = call.entry.conditions
          /\ satisfied = (call.before = "Satisfies"
                          /\ Satisfies(Build(built)[1], conditions))
          /\ phase = ComputePhase(Build(built)[1], call.entry.conditions)

C23_Witness ==
    /\ call.op = "ComputePhaseAgain"
    /\ call.before = "Satisfies"
    /\ satisfied
    /\ Len(conditions) = 1
    /\ \E t \in DOMAIN phaseRules[1].conditions :
          FindStatusCondition(conditions, t) = 0
    /\ phase = "Ready"

----------------------------------------------------------------------------
(* rule evaluation: ComputePhase, ConditionEquals, order and repeated types *)

\* C24: ComputePhase of a rule returns the Phase() of the rule when
\* Satisfies is true for the list and Unknown otherwise, for ConditionsAll
\* and ConditionsAny rules alike; Phase() is the name given to NewPhaseRule.
C24_ComputePhase ==
    call.op = "ComputePhase" =>
        /\ phaseRules[1].phase = built[1].phase
        /\ Satisfies(phaseRules[1], conditions) => phase = built[1].phase
        /\ ~Satisfies(phaseRules[1], conditions) => phase = PhaseUnknown

C24_Witness ==
    /\ call.op = "ComputePhase"
    /\ ~IsAll
    /\ Len(Children) = 2
    /\ conditions # <<>>
    /\ phase = "Ready"

\* C25: ConditionEquals(type, s1..sn) allows exactly the statuses given:
\* its k-th matcher reports the type and sk, so a rule built from it alone
\* accepts a condition of that type exactly when its status is one of
\* s1..sn and rejects a condition of any other type.
C25_ConditionEqualsExact ==
    \A t \in Types, ss \in StatusChoices :
        Children = <<ConditionEquals(t, ss)>> =>
            /\ Len(Children[1]) = Len(ss)
            /\ \A k \in 1..Len(ss) :
                  Children[1][k] = [condition |-> t, status |-> ss[k]]
            /\ (call.op = "Satisfies" /\ Len(conditions) = 1) =>
                  (satisfied <=>
                      /\ conditions[1].type = t
                      /\ \E k \in 1..Len(ss) : conditions[1].status = ss[k])

C25_Witness ==
    /\ call.op = "Satisfies"
    /\ Len(Children) = 1
    /\ Len(Children[1]) = 2
    /\ Len(conditions) = 1
    /\ conditions[1].status = ConditionUnknown
    /\ satisfied

\* each type occurs at most once in the list
UniqueTypes(conds) ==
    \A i, j \in 1..Len(conds) : conds[i].type = conds[j].type => i = j

\* C26: a ConditionsAll rule requires every child to match, also when two
\* ConditionEquals children name the same type:
\* ConditionsAll(ConditionEquals(A, True), ConditionEquals(A, False)) is
\* satisfied by no list in which type A occurs at most once.
C26_SameTypeChildrenAllRequired ==
    (/\ call.op = "Satisfies"
     /\ IsAll
     /\ Children = <<ConditionEquals("A", <<ConditionTrue>>),
                     ConditionEquals("A", <<ConditionFalse>>)>>
     /\ UniqueTypes(conditions))
    => ~satisfied

\* the lists that hold the conditions of conds in another order
Reorderings(conds) ==
    {[i \in 1..Len(conds) |-> conds[o[i]]] : o \in Orders(1..Len(conds))}

\* C27: for every rule and every list in which each type occurs at most
\* once, every permutation of the list gives the same result of Satisfies.
C27_OrderOfListIrrelevant ==
    (call.op = "Satisfies" /\ UniqueTypes(conditions)) =>
        \A l \in Reorderings(conditions) :
            Satisfies(phaseRules[1], l) = satisfied

C27_Witness ==
    /\ call.op = "Satisfies"
    /\ UniqueTypes(conditions)
    /\ Len(conditions) = 2
    /\ ~IsAll
    /\ Len(Children) = 1
    /\ DOMAIN phaseRules[1].conditions = {conditions[2].type}
    /\ satisfied

\* the list without the conditions that a later one of the same type follows
RECURSIVE LastOnly(_, _)
LastOnly(conds, i) ==
    IF i > Len(conds) THEN <<>>
    ELSE (IF \E j \in (i + 1)..Len(conds) : conds[j].type = conds[i].type
          THEN <<>> ELSE <<conds[i]>>)
         \o LastOnly(conds, i + 1)

\* C28: when the list given to Satisfies holds a type more than once, a
\* ConditionsAll rule takes the last occurrence as the status of the type
\* and ignores the earlier ones, and a ConditionsAny rule is satisfied as
\* soon as any occurrence has an allowed status.
C28_RepeatedTypes ==
    (call.op = "Satisfies" /\ ~UniqueTypes(conditions)) =>
        IF IsAll
        THEN satisfied = Satisfies(phaseRules[1], LastOnly(conditions, 1))
        ELSE satisfied <=>
                \E i \in 1..Len(conditions), k \in 1..Len(Children) :
                    /\ conditions[i].type = ChildType(Children[k])
                    /\ conditions[i].status \in ChildStatuses(Children[k])

C28_Witness ==
    /\ call.op = "Satisfies"
    /\ IsAll
    /\ Len(Children) = 1
    /\ Len(conditions) = 2
    /\ conditions[1].type = conditions[2].type
    /\ conditions[1].type = ChildType(Children[1])
    /\ conditions[1].status \notin ChildStatuses(Children[1])
    /\ satisfied

====
